---- MODULE Spec2Model ----
(***************************************************************************)
(* Model of kubefedctl unjoin (pkg/kubefedctl/unjoin.go): Run,             *)
(* UnjoinCluster and the teardown helpers it calls, acting on the API      *)
(* objects of the host cluster and of the unjoining cluster.  Every API    *)
(* call is one step; a call may fail with an error other than NotFound.    *)
(* Further specifications cover two concurrent UnjoinCluster calls, the     *)
(* command's Complete, the cluster client's GetClusterHealthStatus and      *)
(* GetClusterZones, and the managed-label functions.                        *)
(***************************************************************************)
EXTENDS Integers, Sequences, FiniteSets, TLC

\* ---------------------------------------------------------------- bounds
\* Number of API calls, over a whole behaviour, that may fail with an error
\* other than NotFound (an unreachable member API server is not counted).
MaxFaults == 2

\* ------------------------------------------------------------- processes
\* Invocations of the unjoin command.  Under Spec only invocation slot 1
\* runs (invocations follow each other).
Procs == {1, 2}
SeqProcs == {1}

\* ----------------------------------------------------------------- names
Clusters == {"host", "member"}

KubefedNamespace == "kube-federation-system"
UnjoiningClusterName == "cluster2"
OtherClusterName == "cluster3"

\* util.ClusterServiceAccountName, util.RoleName, util.HealthCheckRoleName:
\* three distinct deterministic names.
SaName == "cluster2-cluster1"
RoleName == "kubefed-controller-manager:cluster2-cluster1"
HealthCheckRoleName == "kubefed-controller-manager:kube-federation-system:healthcheck-cluster2-cluster1"

\* Spec.SecretRef.Name of each KubefedCluster.
SecretRefName(c) == IF c = UnjoiningClusterName THEN "cluster2-secret" ELSE "cluster3-secret"

\* The role and binding deletions of deleteClusterRoleAndBinding, in the
\* order the code issues them.
RoleAndBindingOrder ==
    << <<"ClusterRoleBinding", RoleName>>,
       <<"ClusterRole", RoleName>>,
       <<"ClusterRoleBinding", HealthCheckRoleName>>,
       <<"ClusterRole", HealthCheckRoleName>>,
       <<"RoleBinding", RoleName>>,
       <<"Role", RoleName>> >>

ServiceAccountObj == <<"ServiceAccount", SaName>>
NamespaceObj == <<"Namespace", KubefedNamespace>>
SecretObj == <<"Secret", SecretRefName(UnjoiningClusterName)>>
KubefedClusterObj == <<"KubefedCluster", UnjoiningClusterName>>

RoleAndBindingObjs == {RoleAndBindingOrder[k] : k \in 1..Len(RoleAndBindingOrder)}
RBACObjs == RoleAndBindingObjs \cup {ServiceAccountObj}

\* Objects that belong to other joins and that unjoin has no business with.
OtherMemberObjs == {<<"ServiceAccount", "cluster3-cluster1">>}
OtherHostObjs == {<<"Secret", SecretRefName(OtherClusterName)>>,
                  <<"KubefedCluster", OtherClusterName>>}

VARIABLES
    objects,            \* objects[c]: the API objects present on cluster c
    unjoinIsHost,       \* the cluster context being unjoined is the host cluster itself
    faultsLeft,         \* injected API errors still available
    prev,               \* summary of the last completed invocation
    pc,                 \* position of each invocation
    forceDeletion,      \* --force
    dryRun,             \* --dry-run
    down,               \* the unjoining cluster's API server cannot be reached
    clusterConfig,      \* clusterConfig != nil
    clusterClientset,   \* clusterClientset != nil
    memberFail,         \* building the member configuration or clientset failed
    idx,                \* next entry of RoleAndBindingOrder to delete
    roleRet,            \* deletionSucceeded of deleteClusterRoleAndBinding
    rbacRet,            \* deletionSucceeded of deleteRBACResources
    nsErr,              \* error returned by deleteFedNSFromUnjoinCluster
    nsObj,              \* namespace objects fetched (host, unjoining)
    deletionSucceeded,  \* deletionSucceeded of UnjoinCluster
    deregCalled,        \* deleteKubefedClusterAndSecret was called
    err,                \* error returned to the caller
    abortAt,            \* the construction step that returned the error
    calls,              \* API calls issued by the invocation, in order
    startFull,          \* all objects of the join were present when the invocation began
    startReg,           \* registration record and secret were present when it began
    args,               \* positional arguments of the unjoin command
    opts,               \* option fields of unjoinFederation read by Complete
    cmdPc,              \* position of the command's Run closure
    completeErr,        \* error returned by Complete
    probe,              \* outcome of the /healthz request
    clusterStatus,      \* KubeFedClusterStatus returned by GetClusterHealthStatus
    nodeList,           \* outcome of the node List request
    zonesRet,           \* values returned by GetClusterZones
    unstructuredObj,    \* labels of the object the managed-label functions are given
    labelOp,            \* the managed-label function called last
    labelRet            \* what HasManagedLabel or CheckManagedLabel returned

storeVars == <<objects, unjoinIsHost, faultsLeft, prev>>
procVars == <<pc, forceDeletion, dryRun, down, clusterConfig, clusterClientset, memberFail, idx,
              roleRet, rbacRet, nsErr, nsObj, deletionSucceeded, deregCalled, err,
              abortAt, calls, startFull, startReg>>
vars == <<objects, unjoinIsHost, faultsLeft, prev, pc, forceDeletion, dryRun, down,
          clusterConfig, clusterClientset, memberFail, idx, roleRet, rbacRet, nsErr, nsObj,
          deletionSucceeded, deregCalled, err, abortAt, calls, startFull, startReg,
          args, opts, cmdPc, completeErr, probe, clusterStatus, nodeList, zonesRet,
          unstructuredObj, labelOp, labelRet>>
cmdVars == <<args, opts, cmdPc, completeErr>>
healthVars == <<probe, clusterStatus>>
zonesVars == <<nodeList, zonesRet>>
labelVars == <<unstructuredObj, labelOp, labelRet>>
clientVars == <<cmdVars, healthVars, zonesVars, labelVars>>

\* ------------------------------------------------------------ API server
\* The cluster a client talks to.
UnjoiningCluster == IF unjoinIsHost THEN "host" ELSE "member"
ClusterOf(via) == IF via = "clusterClientset" THEN UnjoiningCluster ELSE "host"

\* Identity (UID) of the namespace object held by a cluster.
NamespaceUID(c) == IF c = "host" THEN 1 ELSE 2

\* Outcome of a Get or Delete of obj through client via: an injected error,
\* an unreachable server, or what the presence of the object dictates.
ApiResult(p, via, obj, fault) ==
    IF fault \/ (via = "clusterClientset" /\ down[p]) THEN "Err"
    ELSE IF obj \in objects[ClusterOf(via)] THEN "OK"
    ELSE "NotFound"

\* A fault may be injected while the budget lasts; calls to an unreachable
\* server fail anyway.
FaultAllowed(p, via, fault) ==
    fault => (faultsLeft > 0 /\ ~(via = "clusterClientset" /\ down[p]))

\* The store after a Delete with result res.
AfterDelete(via, obj, res) ==
    IF res = "OK" THEN [objects EXCEPT ![ClusterOf(via)] = @ \ {obj}] ELSE objects

CallRec(via, verb, obj, res) == <<via, verb, obj[1], obj[2], res>>

JoinObjsPresent ==
    /\ RBACObjs \cup {NamespaceObj} \subseteq objects[UnjoiningCluster]
    /\ {SecretObj, KubefedClusterObj, NamespaceObj} \subseteq objects["host"]

\* ------------------------------------------------------------------ Init
NoPrev == [ran |-> FALSE, force |-> FALSE, dry |-> FALSE, clean |-> FALSE,
           full |-> FALSE, removed |-> FALSE, ok |-> FALSE, retained |-> FALSE]

\* The command has not been invoked and no client method has been called.
NoOptions == [ClusterName |-> <<>>, ClusterContext |-> <<>>,
              HostClusterName |-> <<>>, HostClusterContext |-> <<>>]
NoStatus == [called |-> FALSE, Conditions |-> <<>>]
NoZones == [called |-> FALSE, zones |-> {}, region |-> <<>>, err |-> FALSE]
CmdIdle == args = <<>> /\ opts = NoOptions /\ cmdPc = "idle" /\ completeErr = "none"
HealthIdle == probe = [err |-> FALSE, body |-> <<>>] /\ clusterStatus = NoStatus
ZonesIdle == nodeList = [err |-> FALSE, Items |-> <<>>] /\ zonesRet = NoZones
NoLabels == [nil |-> TRUE, Labels |-> {}]
LabelsIdle == unstructuredObj = NoLabels /\ labelOp = "none" /\ labelRet = FALSE

InitUnjoin ==
    /\ unjoinIsHost \in BOOLEAN
    /\ objects = [c \in Clusters |->
                    IF c = "host"
                    THEN {NamespaceObj, SecretObj, KubefedClusterObj} \cup OtherHostObjs
                         \cup (IF unjoinIsHost THEN RBACObjs ELSE {})
                    ELSE {NamespaceObj} \cup RBACObjs \cup OtherMemberObjs]
    /\ faultsLeft = MaxFaults
    /\ prev = NoPrev
    /\ pc = [p \in Procs |-> "idle"]
    /\ forceDeletion = [p \in Procs |-> FALSE]
    /\ dryRun = [p \in Procs |-> FALSE]
    /\ down = [p \in Procs |-> FALSE]
    /\ clusterConfig = [p \in Procs |-> FALSE]
    /\ clusterClientset = [p \in Procs |-> FALSE]
    /\ memberFail = [p \in Procs |-> FALSE]
    /\ idx = [p \in Procs |-> 1]
    /\ roleRet = [p \in Procs |-> TRUE]
    /\ rbacRet = [p \in Procs |-> FALSE]
    /\ nsErr = [p \in Procs |-> "none"]
    /\ nsObj = [p \in Procs |-> <<0, 0>>]
    /\ deletionSucceeded = [p \in Procs |-> FALSE]
    /\ deregCalled = [p \in Procs |-> FALSE]
    /\ err = [p \in Procs |-> "none"]
    /\ abortAt = [p \in Procs |-> "none"]
    /\ calls = [p \in Procs |-> <<>>]
    /\ startFull = [p \in Procs |-> FALSE]
    /\ startReg = [p \in Procs |-> FALSE]

Init == InitUnjoin /\ CmdIdle /\ HealthIdle /\ ZonesIdle /\ LabelsIdle

\* ------------------------------------------------- the code's conditions
\* Variant: NotFound counts as a failure too.
RoleDeleteFailed_AnyError(res) == res # "OK"

\* deleteClusterRoleAndBinding: err != nil && !apierrors.IsNotFound(err).
RoleDeleteFailed(res) == res = "Err"

\* Variant: the test of the error is inverted.
ServiceAccountDeleteFailed_Inverted(res) == res = "OK"

\* deleteRBACResources: err != nil for the error deleteServiceAccount returns,
\* which is the raw error of the Delete call.
ServiceAccountDeleteFailed(res) == res # "OK"

\* Variant: the error of the Get is ignored.
NamespaceGetFailed_Ignored(res) == FALSE

\* deleteFedNSFromUnjoinCluster: err != nil after each Namespaces().Get.
NamespaceGetFailed(res) == res # "OK"

\* deleteFedNSFromUnjoinCluster: IsNotFound(err) returns nil, any other
\* err != nil is returned.
NamespaceDeleteFailed(res) == res = "Err"

\* controllerutil.IsPrimaryCluster: the two namespace objects are the same
\* object (same UID).
IsPrimaryCluster(hostNs, unjoiningNs) == hostNs = unjoiningNs

\* Variant: the primary-cluster check is missing.
SkipNamespaceDelete_Never(hostNs, unjoiningNs) == FALSE

\* deleteFedNSFromUnjoinCluster: if controllerutil.IsPrimaryCluster(...) the
\* namespace is left alone and nil is returned.
SkipNamespaceDelete(hostNs, unjoiningNs) == IsPrimaryCluster(hostNs, unjoiningNs)

\* Variant: the gate is always open.
DeregisterGate_Open(succeeded, force) == TRUE

\* Variant: only force opens the gate.
DeregisterGate_ForceOnly(succeeded, force) == force

\* UnjoinCluster: if deletionSucceeded || forceDeletion.
DeregisterGate(succeeded, force) == succeeded \/ force

\* Variant: the error is returned whatever forceDeletion says.
MemberErrorFatal_Always(force) == TRUE

\* Run and UnjoinCluster: if !forceDeletion { return err } when the member
\* configuration or clientset cannot be built.
MemberErrorFatal(force) == ~force

\* Variant: deleteServiceAccount lacks its dryRun return.
SkipForDryRun_NotServiceAccount(fn, dry) == dry /\ fn # "deleteServiceAccount"

\* Variant: deleteFedNSFromUnjoinCluster lacks its dryRun return.
SkipForDryRun_NotNamespace(fn, dry) == dry /\ fn # "deleteFedNSFromUnjoinCluster"

\* The if dryRun { return ... } that opens deleteKubefedClusterAndSecret,
\* deleteFedNSFromUnjoinCluster, deleteServiceAccount and
\* deleteClusterRoleAndBinding.
SkipForDryRun(fn, dry) == dry

\* Variant: the first failed deletion ends the sequence.
RoleLoopDone_StopOnError(i, res) == i = Len(RoleAndBindingOrder) \/ res = "Err"

\* Variant: a failed teardown is reported to the caller.
UnjoinClusterResult_ErrOnFailure(succeeded, force) ==
    IF succeeded \/ force THEN "nil" ELSE "err"

\* UnjoinCluster: return nil, once the clients are built.
UnjoinClusterResult(succeeded, force) == "nil"

\* Variant: a failed secret deletion ends deleteKubefedClusterAndSecret.
SecretDeleteNext_StopOnError(res) == IF res = "Err" THEN "return" ELSE "deleteKubefedCluster"

\* Variant: deleteKubefedClusterAndSecret returns after the secret.
SecretDeleteNext_Return(res) == "return"

\* deleteKubefedClusterAndSecret: the error of the secret deletion is logged
\* and the KubefedCluster deletion follows.
SecretDeleteNext(res) == "deleteKubefedCluster"

\* Variant: a KubefedCluster that is not found does not end the function.
RecordGetFailed_OnlyOtherErrors(res) == res = "Err"

\* deleteKubefedClusterAndSecret: err != nil after client.Get of the
\* KubefedCluster.
RecordGetFailed(res) == res # "OK"

\* Variant: the secret deleted is the one another KubefedCluster names.
SecretOfRecord_OtherCluster(rec) == <<"Secret", SecretRefName(OtherClusterName)>>

\* deleteKubefedClusterAndSecret: the secret to delete is the one named by
\* fedCluster.Spec.SecretRef.Name of the fetched KubefedCluster.
SecretOfRecord(rec) == <<"Secret", SecretRefName(rec[2])>>

\* Variant: the namespace step is skipped when the RBAC teardown failed.
AfterRBAC_ShortCircuit(ret) == IF ret THEN "deleteFedNSFromUnjoinCluster" ELSE "gate"

\* UnjoinCluster: deleteFedNSFromUnjoinCluster is called whatever
\* deleteRBACResources returned.
AfterRBAC(ret) == "deleteFedNSFromUnjoinCluster"

\* deleteClusterRoleAndBinding leaves its sequence of deletions after the
\* last one, whatever the deletions returned.
RoleLoopDone(i, res) == i = Len(RoleAndBindingOrder)

HasErr(s) == \E k \in 1..Len(s) : s[k][5] = "Err"
RemovedOnMember(s) ==
    \E k \in 1..Len(s) : s[k][1] = "clusterClientset" /\ s[k][2] = "Delete" /\ s[k][5] = "OK"

\* What is remembered of an invocation once it has returned.
Summary(p) ==
    [ran |-> TRUE, force |-> forceDeletion[p], dry |-> dryRun[p],
     clean |-> clusterClientset[p] /\ ~down[p] /\ ~HasErr(calls[p]) /\ err[p] = "nil",
     full |-> startFull[p], removed |-> RemovedOnMember(calls[p]),
     ok |-> err[p] = "nil", retained |-> KubefedClusterObj \in objects["host"]]

\* --------------------------------------------------------------- actions
\* The command is invoked (through Run) or UnjoinCluster is called directly.
Start(p) ==
    /\ pc[p] \in {"idle", "done"}
    /\ \E entry \in {"Run", "UnjoinCluster"}, f \in BOOLEAN, d \in BOOLEAN, cc \in BOOLEAN :
        /\ entry = "Run" => ~cc
        /\ pc' = [pc EXCEPT ![p] = entry]
        /\ forceDeletion' = [forceDeletion EXCEPT ![p] = f]
        /\ dryRun' = [dryRun EXCEPT ![p] = d]
        /\ clusterConfig' = [clusterConfig EXCEPT ![p] = cc]
    /\ down' = [down EXCEPT ![p] = FALSE]
    /\ prev' = IF pc[p] = "done" THEN Summary(p) ELSE prev
    /\ clusterClientset' = [clusterClientset EXCEPT ![p] = FALSE]
    /\ memberFail' = [memberFail EXCEPT ![p] = FALSE]
    /\ idx' = [idx EXCEPT ![p] = 1]
    /\ roleRet' = [roleRet EXCEPT ![p] = TRUE]
    /\ rbacRet' = [rbacRet EXCEPT ![p] = FALSE]
    /\ nsErr' = [nsErr EXCEPT ![p] = "none"]
    /\ nsObj' = [nsObj EXCEPT ![p] = <<0, 0>>]
    /\ deletionSucceeded' = [deletionSucceeded EXCEPT ![p] = FALSE]
    /\ deregCalled' = [deregCalled EXCEPT ![p] = FALSE]
    /\ err' = [err EXCEPT ![p] = "none"]
    /\ abortAt' = [abortAt EXCEPT ![p] = "none"]
    /\ calls' = [calls EXCEPT ![p] = <<>>]
    /\ startFull' = [startFull EXCEPT ![p] = JoinObjsPresent]
    /\ startReg' = [startReg EXCEPT ![p] = {SecretObj, KubefedClusterObj} \subseteq objects["host"]]
    /\ UNCHANGED <<objects, unjoinIsHost, faultsLeft, clientVars>>

\* An early return with an error.
Abort(p, at) ==
    /\ err' = [err EXCEPT ![p] = "err"]
    /\ abortAt' = [abortAt EXCEPT ![p] = at]
    /\ pc' = [pc EXCEPT ![p] = "done"]

\* unjoinFederation.Run: load the two configurations.
Run(p) ==
    /\ pc[p] = "Run"
    /\ \E hostOK \in BOOLEAN, clusterOK \in BOOLEAN :
        IF ~hostOK
        THEN Abort(p, "HostConfig") /\ UNCHANGED <<clusterConfig, memberFail>>
        ELSE /\ memberFail' = [memberFail EXCEPT ![p] = ~clusterOK]
             /\ IF ~clusterOK /\ MemberErrorFatal(forceDeletion[p])
                THEN Abort(p, "ClusterConfig") /\ UNCHANGED clusterConfig
                ELSE /\ clusterConfig' = [clusterConfig EXCEPT ![p] = clusterOK]
                     /\ pc' = [pc EXCEPT ![p] = "UnjoinCluster"]
                     /\ UNCHANGED <<err, abortAt>>
    /\ UNCHANGED <<storeVars, forceDeletion, dryRun, down, clusterClientset, idx, roleRet,
                   rbacRet, nsErr, nsObj, deletionSucceeded, deregCalled, calls, startFull, startReg, clientVars>>

\* UnjoinCluster, client construction.  A clientset is built without
\* contacting the server: whether the server can be reached (down) shows
\* only in the calls made through the clientset.
UnjoinCluster(p) ==
    /\ pc[p] = "UnjoinCluster"
    /\ \E hostOK \in BOOLEAN, clusterOK \in BOOLEAN, genericOK \in BOOLEAN, dn \in BOOLEAN :
        IF ~hostOK
        THEN Abort(p, "HostClientset") /\ UNCHANGED <<clusterClientset, down, memberFail>>
        ELSE /\ memberFail' = [memberFail EXCEPT ![p] = @ \/ (clusterConfig[p] /\ ~clusterOK)]
             /\ IF clusterConfig[p] /\ ~clusterOK /\ MemberErrorFatal(forceDeletion[p])
                THEN Abort(p, "ClusterClientset") /\ UNCHANGED <<clusterClientset, down>>
                ELSE IF ~genericOK
                THEN Abort(p, "GenericClient") /\ UNCHANGED <<clusterClientset, down>>
                ELSE /\ clusterClientset' =
                            [clusterClientset EXCEPT ![p] = clusterConfig[p] /\ clusterOK]
                     /\ down' = [down EXCEPT ![p] = dn /\ clusterConfig[p] /\ clusterOK]
                     /\ pc' = [pc EXCEPT ![p] = "teardown"]
                     /\ UNCHANGED <<err, abortAt>>
    /\ UNCHANGED <<storeVars, forceDeletion, dryRun, clusterConfig, idx, roleRet,
                   rbacRet, nsErr, nsObj, deletionSucceeded, deregCalled, calls, startFull, startReg, clientVars>>

\* UnjoinCluster: var deletionSucceeded bool; if clusterClientset != nil.
Teardown(p) ==
    /\ pc[p] = "teardown"
    /\ pc' = [pc EXCEPT ![p] = IF clusterClientset[p] THEN "deleteClusterRoleAndBinding"
                                                      ELSE "gate"]
    /\ UNCHANGED <<storeVars, forceDeletion, dryRun, down, clusterConfig, clusterClientset,
                   memberFail, idx, roleRet, rbacRet, nsErr, nsObj, deletionSucceeded, deregCalled, err,
                   abortAt, calls, startFull, startReg, clientVars>>

\* deleteClusterRoleAndBinding: returns true at once under dryRun, otherwise
\* one deletion of RoleAndBindingOrder per step.
DeleteClusterRoleAndBinding(p) ==
    /\ pc[p] = "deleteClusterRoleAndBinding"
    /\ IF SkipForDryRun("deleteClusterRoleAndBinding", dryRun[p])
       THEN /\ pc' = [pc EXCEPT ![p] = "deleteServiceAccount"]
            /\ UNCHANGED <<objects, faultsLeft, idx, roleRet, calls>>
       ELSE \E fault \in BOOLEAN :
            LET obj == RoleAndBindingOrder[idx[p]]
                res == ApiResult(p, "clusterClientset", obj, fault)
            IN  /\ FaultAllowed(p, "clusterClientset", fault)
                /\ faultsLeft' = IF fault THEN faultsLeft - 1 ELSE faultsLeft
                /\ objects' = AfterDelete("clusterClientset", obj, res)
                /\ calls' = [calls EXCEPT ![p] =
                                Append(@, CallRec("clusterClientset", "Delete", obj, res))]
                /\ roleRet' = [roleRet EXCEPT ![p] = IF RoleDeleteFailed(res) THEN FALSE ELSE @]
                /\ IF RoleLoopDone(idx[p], res)
                   THEN pc' = [pc EXCEPT ![p] = "deleteServiceAccount"] /\ UNCHANGED idx
                   ELSE idx' = [idx EXCEPT ![p] = @ + 1] /\ UNCHANGED pc
    /\ UNCHANGED <<unjoinIsHost, prev, forceDeletion, dryRun, down, clusterConfig,
                   clusterClientset, memberFail, rbacRet, nsErr, nsObj, deletionSucceeded, deregCalled,
                   err, abortAt, startFull, startReg, clientVars>>

\* deleteRBACResources after the roles: deleteServiceAccount, and the return
\* value assigned to UnjoinCluster's deletionSucceeded.
DeleteServiceAccount(p) ==
    /\ pc[p] = "deleteServiceAccount"
    /\ IF SkipForDryRun("deleteServiceAccount", dryRun[p])
       THEN /\ rbacRet' = [rbacRet EXCEPT ![p] = roleRet[p]]
            /\ deletionSucceeded' = [deletionSucceeded EXCEPT ![p] = roleRet[p]]
            /\ UNCHANGED <<objects, faultsLeft, calls>>
       ELSE \E fault \in BOOLEAN :
            LET res == ApiResult(p, "clusterClientset", ServiceAccountObj, fault)
                ret == IF ServiceAccountDeleteFailed(res) THEN FALSE ELSE roleRet[p]
            IN  /\ FaultAllowed(p, "clusterClientset", fault)
                /\ faultsLeft' = IF fault THEN faultsLeft - 1 ELSE faultsLeft
                /\ objects' = AfterDelete("clusterClientset", ServiceAccountObj, res)
                /\ calls' = [calls EXCEPT ![p] =
                                Append(@, CallRec("clusterClientset", "Delete",
                                                  ServiceAccountObj, res))]
                /\ rbacRet' = [rbacRet EXCEPT ![p] = ret]
                /\ deletionSucceeded' = [deletionSucceeded EXCEPT ![p] = ret]
    /\ pc' = [pc EXCEPT ![p] = AfterRBAC(rbacRet'[p])]
    /\ UNCHANGED <<unjoinIsHost, prev, forceDeletion, dryRun, down, clusterConfig,
                   clusterClientset, memberFail, idx, roleRet, nsErr, nsObj, deregCalled, err, abortAt,
                   startFull, startReg, clientVars>>

\* deleteFedNSFromUnjoinCluster returned err: UnjoinCluster clears
\* deletionSucceeded.
NamespaceStepFailed(p) ==
    /\ nsErr' = [nsErr EXCEPT ![p] = "err"]
    /\ deletionSucceeded' = [deletionSucceeded EXCEPT ![p] = FALSE]
    /\ pc' = [pc EXCEPT ![p] = "gate"]

NamespaceStepOK(p) ==
    /\ nsErr' = [nsErr EXCEPT ![p] = "nil"]
    /\ pc' = [pc EXCEPT ![p] = "gate"]
    /\ UNCHANGED deletionSucceeded

\* deleteFedNSFromUnjoinCluster: the dryRun return, else the Get of the
\* namespace on the host.
DeleteFedNSFromUnjoinCluster(p) ==
    /\ pc[p] = "deleteFedNSFromUnjoinCluster"
    /\ IF SkipForDryRun("deleteFedNSFromUnjoinCluster", dryRun[p])
       THEN NamespaceStepOK(p) /\ UNCHANGED <<faultsLeft, calls, nsObj>>
       ELSE \E fault \in BOOLEAN :
            LET res == ApiResult(p, "hostClientset", NamespaceObj, fault)
            IN  /\ FaultAllowed(p, "hostClientset", fault)
                /\ faultsLeft' = IF fault THEN faultsLeft - 1 ELSE faultsLeft
                /\ calls' = [calls EXCEPT ![p] =
                                Append(@, CallRec("hostClientset", "Get", NamespaceObj, res))]
                /\ IF NamespaceGetFailed(res)
                   THEN NamespaceStepFailed(p) /\ UNCHANGED nsObj
                   ELSE /\ nsObj' = [nsObj EXCEPT ![p] = <<NamespaceUID("host"), @[2]>>]
                        /\ pc' = [pc EXCEPT ![p] = "getUnjoiningNamespace"]
                        /\ UNCHANGED <<nsErr, deletionSucceeded>>
    /\ UNCHANGED <<objects, unjoinIsHost, prev, forceDeletion, dryRun, down, clusterConfig,
                   clusterClientset, memberFail, idx, roleRet, rbacRet, deregCalled, err, abortAt,
                   startFull, startReg, clientVars>>

\* deleteFedNSFromUnjoinCluster: the Get of the namespace on the unjoining
\* cluster.
GetUnjoiningNamespace(p) ==
    /\ pc[p] = "getUnjoiningNamespace"
    /\ \E fault \in BOOLEAN :
        LET res == ApiResult(p, "clusterClientset", NamespaceObj, fault)
        IN  /\ FaultAllowed(p, "clusterClientset", fault)
            /\ faultsLeft' = IF fault THEN faultsLeft - 1 ELSE faultsLeft
            /\ calls' = [calls EXCEPT ![p] =
                            Append(@, CallRec("clusterClientset", "Get", NamespaceObj, res))]
            /\ IF NamespaceGetFailed(res)
               THEN NamespaceStepFailed(p) /\ UNCHANGED nsObj
               ELSE /\ nsObj' = [nsObj EXCEPT ![p] = <<@[1], NamespaceUID(UnjoiningCluster)>>]
                    /\ pc' = [pc EXCEPT ![p] = "deleteNamespace"]
                    /\ UNCHANGED <<nsErr, deletionSucceeded>>
    /\ UNCHANGED <<objects, unjoinIsHost, prev, forceDeletion, dryRun, down, clusterConfig,
                   clusterClientset, memberFail, idx, roleRet, rbacRet, deregCalled, err, abortAt,
                   startFull, startReg, clientVars>>

\* deleteFedNSFromUnjoinCluster: the primary-cluster check and the Delete.
DeleteNamespace(p) ==
    /\ pc[p] = "deleteNamespace"
    /\ IF SkipNamespaceDelete(nsObj[p][1], nsObj[p][2])
       THEN NamespaceStepOK(p) /\ UNCHANGED <<objects, faultsLeft, calls>>
       ELSE \E fault \in BOOLEAN :
            LET res == ApiResult(p, "clusterClientset", NamespaceObj, fault)
            IN  /\ FaultAllowed(p, "clusterClientset", fault)
                /\ faultsLeft' = IF fault THEN faultsLeft - 1 ELSE faultsLeft
                /\ objects' = AfterDelete("clusterClientset", NamespaceObj, res)
                /\ calls' = [calls EXCEPT ![p] =
                                Append(@, CallRec("clusterClientset", "Delete",
                                                  NamespaceObj, res))]
                /\ IF NamespaceDeleteFailed(res)
                   THEN NamespaceStepFailed(p)
                   ELSE NamespaceStepOK(p)
    /\ UNCHANGED <<unjoinIsHost, prev, forceDeletion, dryRun, down, clusterConfig,
                   clusterClientset, memberFail, idx, roleRet, rbacRet, nsObj, deregCalled, err, abortAt,
                   startFull, startReg, clientVars>>

\* UnjoinCluster: the gate in front of deleteKubefedClusterAndSecret.
Gate(p) ==
    /\ pc[p] = "gate"
    /\ IF DeregisterGate(deletionSucceeded[p], forceDeletion[p])
       THEN /\ deregCalled' = [deregCalled EXCEPT ![p] = TRUE]
            /\ pc' = [pc EXCEPT ![p] = "deleteKubefedClusterAndSecret"]
       ELSE /\ pc' = [pc EXCEPT ![p] = "return"]
            /\ UNCHANGED deregCalled
    /\ UNCHANGED <<storeVars, forceDeletion, dryRun, down, clusterConfig, clusterClientset,
                   memberFail, idx, roleRet, rbacRet, nsErr, nsObj, deletionSucceeded, err, abortAt,
                   calls, startFull, startReg, clientVars>>

\* deleteKubefedClusterAndSecret: the dryRun return, else the Get of the
\* KubefedCluster.
DeleteKubefedClusterAndSecret(p) ==
    /\ pc[p] = "deleteKubefedClusterAndSecret"
    /\ IF SkipForDryRun("deleteKubefedClusterAndSecret", dryRun[p])
       THEN /\ pc' = [pc EXCEPT ![p] = "return"]
            /\ UNCHANGED <<faultsLeft, calls>>
       ELSE \E fault \in BOOLEAN :
            LET res == ApiResult(p, "genericclient", KubefedClusterObj, fault)
            IN  /\ FaultAllowed(p, "genericclient", fault)
                /\ faultsLeft' = IF fault THEN faultsLeft - 1 ELSE faultsLeft
                /\ calls' = [calls EXCEPT ![p] =
                                Append(@, CallRec("genericclient", "Get",
                                                  KubefedClusterObj, res))]
                /\ pc' = [pc EXCEPT ![p] = IF RecordGetFailed(res) THEN "return"
                                                                    ELSE "deleteSecret"]
    /\ UNCHANGED <<objects, unjoinIsHost, prev, forceDeletion, dryRun, down, clusterConfig,
                   clusterClientset, memberFail, idx, roleRet, rbacRet, nsErr, nsObj, deletionSucceeded,
                   deregCalled, err, abortAt, startFull, startReg, clientVars>>

\* deleteKubefedClusterAndSecret: delete the secret the KubefedCluster names.
DeleteSecret(p) ==
    /\ pc[p] = "deleteSecret"
    /\ \E fault \in BOOLEAN :
        LET secret == SecretOfRecord(KubefedClusterObj)
            res == ApiResult(p, "hostClientset", secret, fault)
        IN  /\ FaultAllowed(p, "hostClientset", fault)
            /\ faultsLeft' = IF fault THEN faultsLeft - 1 ELSE faultsLeft
            /\ objects' = AfterDelete("hostClientset", secret, res)
            /\ calls' = [calls EXCEPT ![p] =
                            Append(@, CallRec("hostClientset", "Delete", secret, res))]
            /\ pc' = [pc EXCEPT ![p] = SecretDeleteNext(res)]
    /\ UNCHANGED <<unjoinIsHost, prev, forceDeletion, dryRun, down, clusterConfig,
                   clusterClientset, memberFail, idx, roleRet, rbacRet, nsErr, nsObj, deletionSucceeded,
                   deregCalled, err, abortAt, startFull, startReg, clientVars>>

\* deleteKubefedClusterAndSecret: delete the KubefedCluster.
DeleteKubefedCluster(p) ==
    /\ pc[p] = "deleteKubefedCluster"
    /\ \E fault \in BOOLEAN :
        LET res == ApiResult(p, "genericclient", KubefedClusterObj, fault)
        IN  /\ FaultAllowed(p, "genericclient", fault)
            /\ faultsLeft' = IF fault THEN faultsLeft - 1 ELSE faultsLeft
            /\ objects' = AfterDelete("genericclient", KubefedClusterObj, res)
            /\ calls' = [calls EXCEPT ![p] =
                            Append(@, CallRec("genericclient", "Delete",
                                              KubefedClusterObj, res))]
    /\ pc' = [pc EXCEPT ![p] = "return"]
    /\ UNCHANGED <<unjoinIsHost, prev, forceDeletion, dryRun, down, clusterConfig,
                   clusterClientset, memberFail, idx, roleRet, rbacRet, nsErr, nsObj, deletionSucceeded,
                   deregCalled, err, abortAt, startFull, startReg, clientVars>>

\* UnjoinCluster: return nil.
Return(p) ==
    /\ pc[p] = "return"
    /\ err' = [err EXCEPT ![p] = UnjoinClusterResult(deletionSucceeded[p], forceDeletion[p])]
    /\ pc' = [pc EXCEPT ![p] = "done"]
    /\ UNCHANGED <<storeVars, forceDeletion, dryRun, down, clusterConfig, clusterClientset,
                   memberFail, idx, roleRet, rbacRet, nsErr, nsObj, deletionSucceeded, deregCalled,
                   abortAt, calls, startFull, startReg, clientVars>>

Step(p) ==
    \/ Start(p)
    \/ Run(p)
    \/ UnjoinCluster(p)
    \/ Teardown(p)
    \/ DeleteClusterRoleAndBinding(p)
    \/ DeleteServiceAccount(p)
    \/ DeleteFedNSFromUnjoinCluster(p)
    \/ GetUnjoiningNamespace(p)
    \/ DeleteNamespace(p)
    \/ Gate(p)
    \/ DeleteKubefedClusterAndSecret(p)
    \/ DeleteSecret(p)
    \/ DeleteKubefedCluster(p)
    \/ Return(p)

Next == \E p \in SeqProcs : Step(p)

Spec == Init /\ [][Next]_vars

\* ==================================================== concurrent unjoins
\* Two invocations of UnjoinCluster for the same cluster, both with a member
\* configuration, forceDeletion=false and dryRun=false, running against the
\* same API servers with all objects of the join present; no API call fails
\* for a reason other than the state of the store.
InitConcurrent ==
    /\ CmdIdle /\ HealthIdle /\ ZonesIdle /\ LabelsIdle
    /\ unjoinIsHost = FALSE
    /\ objects = [c \in Clusters |->
                    IF c = "host"
                    THEN {NamespaceObj, SecretObj, KubefedClusterObj} \cup OtherHostObjs
                    ELSE {NamespaceObj} \cup RBACObjs \cup OtherMemberObjs]
    /\ faultsLeft = 0
    /\ prev = NoPrev
    /\ pc = [p \in Procs |-> "UnjoinCluster"]
    /\ forceDeletion = [p \in Procs |-> FALSE]
    /\ dryRun = [p \in Procs |-> FALSE]
    /\ down = [p \in Procs |-> FALSE]
    /\ clusterConfig = [p \in Procs |-> TRUE]
    /\ clusterClientset = [p \in Procs |-> FALSE]
    /\ memberFail = [p \in Procs |-> FALSE]
    /\ idx = [p \in Procs |-> 1]
    /\ roleRet = [p \in Procs |-> TRUE]
    /\ rbacRet = [p \in Procs |-> FALSE]
    /\ nsErr = [p \in Procs |-> "none"]
    /\ nsObj = [p \in Procs |-> <<0, 0>>]
    /\ deletionSucceeded = [p \in Procs |-> FALSE]
    /\ deregCalled = [p \in Procs |-> FALSE]
    /\ err = [p \in Procs |-> "none"]
    /\ abortAt = [p \in Procs |-> "none"]
    /\ calls = [p \in Procs |-> <<>>]
    /\ startFull = [p \in Procs |-> TRUE]
    /\ startReg = [p \in Procs |-> TRUE]

\* The steps of the two invocations interleave at the API calls.
NextConcurrent ==
    \E p \in Procs :
        \/ UnjoinCluster(p)
        \/ Teardown(p)
        \/ DeleteClusterRoleAndBinding(p)
        \/ DeleteServiceAccount(p)
        \/ DeleteFedNSFromUnjoinCluster(p)
        \/ GetUnjoiningNamespace(p)
        \/ DeleteNamespace(p)
        \/ Gate(p)
        \/ DeleteKubefedClusterAndSecret(p)
        \/ DeleteSecret(p)
        \/ DeleteKubefedCluster(p)
        \/ Return(p)

SpecConcurrent == InitConcurrent /\ [][NextConcurrent]_vars

\* ===================================================== command validation
\* Strings are sequences of characters; "" is <<>>.
MaxStrLen == 2
Chars == {"a", "/", ":"}
Strs(n) == UNION {[1..k -> Chars] : k \in 0..n}

\* strings.ContainsAny(s, chars).
ContainsAny(s, chars) == \E i \in 1..Len(s) : s[i] \in chars

\* CommonJoinOptions.SetName: len(args) == 0.
NameMissing(a) == Len(a) = 0

\* Complete: j.HostClusterName != "" && strings.ContainsAny(j.HostClusterName, ":/").
HostClusterNameInvalid(o) ==
    o.HostClusterName # <<>> /\ ContainsAny(o.HostClusterName, {":", "/"})

\* Variant: the host context is checked even when an override is given.
HostClusterContextInvalid_AlwaysChecked(o) ==
    ContainsAny(o.HostClusterContext, {":", "/"})

\* Complete: j.HostClusterName == "" && strings.ContainsAny(j.HostClusterContext, ":/").
HostClusterContextInvalid(o) ==
    o.HostClusterName = <<>> /\ ContainsAny(o.HostClusterContext, {":", "/"})

\* The option fields after SetName and the defaulting of ClusterContext.
Completed(o, a) ==
    LET named == [o EXCEPT !.ClusterName = a[1]]
    IN  IF named.ClusterContext = <<>>
        THEN [named EXCEPT !.ClusterContext = named.ClusterName]
        ELSE named

\* The command line: an optional positional name and the three flags.
InitComplete ==
    /\ InitUnjoin /\ HealthIdle /\ ZonesIdle /\ LabelsIdle
    /\ args \in {<<>>, << <<"a">> >>}
    /\ opts \in [ClusterName : {<<>>}, ClusterContext : {<<>>, <<"a">>},
              HostClusterName : Strs(MaxStrLen), HostClusterContext : Strs(MaxStrLen)]
    /\ cmdPc = "Complete"
    /\ completeErr = "none"

\* Complete(args), with SetName.
Complete ==
    /\ cmdPc = "Complete"
    /\ IF NameMissing(args)
       THEN completeErr' = "NAME is required" /\ UNCHANGED opts
       ELSE /\ opts' = Completed(opts, args)
            /\ completeErr' =
                 IF HostClusterNameInvalid(opts') THEN "host-cluster-name may not contain"
                 ELSE IF HostClusterContextInvalid(opts') THEN "host-cluster-name must be set"
                 ELSE "nil"
    /\ cmdPc' = "completed"
    /\ UNCHANGED <<storeVars, procVars, args, healthVars, zonesVars, labelVars>>

\* The command's closure: klog.Fatalf when Complete returned an error.
CmdFatal ==
    /\ cmdPc = "completed" /\ completeErr # "nil"
    /\ cmdPc' = "fatal"
    /\ UNCHANGED <<storeVars, procVars, args, opts, completeErr, healthVars, zonesVars, labelVars>>

\* The command's closure: opts.Run is invoked.
CmdRun ==
    /\ cmdPc = "completed" /\ completeErr = "nil"
    /\ cmdPc' = "Run"
    /\ UNCHANGED <<storeVars, procVars, args, opts, completeErr, healthVars, zonesVars, labelVars>>

NextComplete == Complete \/ CmdFatal \/ CmdRun

SpecComplete == InitComplete /\ [][NextComplete]_vars

\* ========================================================== cluster health
MaxBodyLen == 3
BodyChars == {"o", "k", "O", "K", "x"}
Bodies(n) == UNION {[1..k -> BodyChars] : k \in 0..n}

\* Case folding of one character.
Fold(c) == CASE c = "O" -> "o" [] c = "K" -> "k" [] OTHER -> c

\* Variant: the comparison distinguishes case.
EqualFold_CaseSensitive(s, t) == s = t

\* strings.EqualFold(s, t).
EqualFold(s, t) ==
    /\ Len(s) = Len(t)
    /\ \A i \in 1..Len(s) : Fold(s[i]) = Fold(t[i])

\* The four conditions GetClusterHealthStatus builds.
newClusterReadyCondition == [Type |-> "Ready", Status |-> "True"]
newClusterNotReadyCondition == [Type |-> "Ready", Status |-> "False"]
newClusterOfflineCondition == [Type |-> "Offline", Status |-> "True"]
newClusterNotOfflineCondition == [Type |-> "Offline", Status |-> "False"]

\* The /healthz request: a transport error (no body) or a body.
InitHealth ==
    /\ InitUnjoin /\ CmdIdle /\ ZonesIdle /\ LabelsIdle
    /\ probe \in [err : {TRUE}, body : {<<>>}] \cup [err : {FALSE}, body : Bodies(MaxBodyLen)]
    /\ clusterStatus = NoStatus

GetClusterHealthStatus ==
    /\ ~clusterStatus.called
    /\ clusterStatus' =
         [called |-> TRUE,
          Conditions |->
            IF probe.err THEN <<newClusterOfflineCondition>>
            ELSE IF ~EqualFold(probe.body, <<"o", "k">>)
                 THEN <<newClusterNotReadyCondition, newClusterNotOfflineCondition>>
                 ELSE <<newClusterReadyCondition>>]
    /\ UNCHANGED <<storeVars, procVars, cmdVars, probe, zonesVars, labelVars>>

NextHealth == GetClusterHealthStatus

SpecHealth == InitHealth /\ [][NextHealth]_vars

\* =========================================================== cluster zones
MaxNodes == 3
LabelZoneFailureDomain == "failure-domain.beta.kubernetes.io/zone"
LabelZoneRegion == "failure-domain.beta.kubernetes.io/region"
ZoneValues == {<<>>, <<"a">>, <<"b">>}
RegionValues == {<<"r1">>, <<"r2">>}

\* Labels of a node: a set of <<key, value>> pairs with distinct keys.
NodeLabels ==
    {zl \cup rl : zl \in {{}} \cup {{<<LabelZoneFailureDomain, z>>} : z \in ZoneValues},
                  rl \in {{}} \cup {{<<LabelZoneRegion, r>>} : r \in RegionValues}}
Nodes == [Labels : NodeLabels]
NodeLists(n) == UNION {[1..k -> Nodes] : k \in 0..n}

\* The value of label key on the node, "" when the node has no such label.
LabelOr(node, key) ==
    IF \E kv \in node.Labels : kv[1] = key
    THEN (CHOOSE kv \in node.Labels : kv[1] = key)[2]
    ELSE <<>>

getZoneNameForNode(node) == LabelOr(node, LabelZoneFailureDomain)
getRegionNameForNode(node) == LabelOr(node, LabelZoneRegion)

\* Variant: every node overwrites the region.
PickRegion_EveryNode(i) == TRUE

\* GetClusterZones: i == 0 (the first item; sequences start at 1).
PickRegion(i) == i = 1

\* GetClusterZones: zone != "".
ZoneCounts(zone) == zone # <<>>

\* The loop over nodes.Items from item i on, with the zones and region so far.
RECURSIVE ZonesLoop(_, _, _, _)
ZonesLoop(items, i, zones, region) ==
    IF i > Len(items) THEN [zones |-> zones, region |-> region]
    ELSE LET zone == getZoneNameForNode(items[i])
             r == IF PickRegion(i) THEN getRegionNameForNode(items[i]) ELSE region
             zs == IF ZoneCounts(zone) /\ zone \notin zones THEN zones \cup {zone} ELSE zones
         IN  ZonesLoop(items, i + 1, zs, r)

\* The node List request: an error, or a list of nodes.
InitZones ==
    /\ InitUnjoin /\ CmdIdle /\ HealthIdle /\ LabelsIdle
    /\ nodeList \in [err : {TRUE}, Items : {<<>>}] \cup [err : {FALSE}, Items : NodeLists(MaxNodes)]
    /\ zonesRet = NoZones

GetClusterZones ==
    /\ ~zonesRet.called
    /\ zonesRet' =
         IF nodeList.err
         THEN [called |-> TRUE, zones |-> {}, region |-> <<>>, err |-> TRUE]
         ELSE LET out == ZonesLoop(nodeList.Items, 1, {}, <<>>)
              IN  [called |-> TRUE, zones |-> out.zones, region |-> out.region, err |-> FALSE]
    /\ UNCHANGED <<storeVars, procVars, cmdVars, healthVars, nodeList, labelVars>>

NextZones == GetClusterZones

SpecZones == InitZones /\ [][NextZones]_vars

\* =========================================================== managed label
MaxOtherLabels == 2
ManagedByKubeFedLabelKey == "kubefed.k8s.io/managed"
ManagedByKubeFedLabelValue == "true"

\* Label keys other than the managed key, and the values labels take.
OtherLabelNames == <<"app", "tier", "env", "team">>
OtherLabelKeys(n) == {OtherLabelNames[i] : i \in 1..n}
ManagedLabelValues == {"true", "false", "x"}
OtherLabelValues == {"a", "b"}
LabelPairs(n) ==
    ({ManagedByKubeFedLabelKey} \X ManagedLabelValues) \cup (OtherLabelKeys(n) \X OtherLabelValues)

\* A label map: <<key, value>> pairs with distinct keys.
LabelMaps(n) ==
    {m \in SUBSET LabelPairs(n) : \A a \in m, b \in m : a[1] = b[1] => a = b}

\* obj.GetLabels(): nil, or a map.
Objects(n) == {NoLabels} \cup [nil : {FALSE}, Labels : LabelMaps(n)]

\* labels[key]: the value, "" without the key (and on a nil map).
LabelValue(o, key) ==
    IF \E kv \in o.Labels : kv[1] = key
    THEN (CHOOSE kv \in o.Labels : kv[1] = key)[2]
    ELSE ""

\* Variant: only a nil map makes RemoveManagedLabel return early.
RemoveReturnsEarly_OnlyNil(o) == o.nil

\* RemoveManagedLabel: labels == nil || labels[key] != value.
RemoveReturnsEarly(o) ==
    o.nil \/ LabelValue(o, ManagedByKubeFedLabelKey) # ManagedByKubeFedLabelValue

InitLabels ==
    /\ InitUnjoin /\ CmdIdle /\ HealthIdle /\ ZonesIdle
    /\ unstructuredObj \in Objects(MaxOtherLabels)
    /\ labelOp = "none"
    /\ labelRet = FALSE

HasManagedLabel ==
    /\ labelOp' = "HasManagedLabel"
    /\ labelRet' = IF unstructuredObj.nil THEN FALSE
                   ELSE LabelValue(unstructuredObj, ManagedByKubeFedLabelKey)
                           = ManagedByKubeFedLabelValue
    /\ UNCHANGED <<storeVars, procVars, cmdVars, healthVars, zonesVars, unstructuredObj>>

AddManagedLabel ==
    /\ labelOp' = "AddManagedLabel"
    /\ LET labels == IF unstructuredObj.nil THEN {} ELSE unstructuredObj.Labels
       IN  unstructuredObj' =
             [nil |-> FALSE,
              Labels |-> {kv \in labels : kv[1] # ManagedByKubeFedLabelKey}
                            \cup {<<ManagedByKubeFedLabelKey, ManagedByKubeFedLabelValue>>}]
    /\ UNCHANGED <<storeVars, procVars, cmdVars, healthVars, zonesVars, labelRet>>

RemoveManagedLabel ==
    /\ labelOp' = "RemoveManagedLabel"
    /\ unstructuredObj' =
         IF RemoveReturnsEarly(unstructuredObj) THEN unstructuredObj
         ELSE [nil |-> FALSE,
               Labels |-> {kv \in unstructuredObj.Labels : kv[1] # ManagedByKubeFedLabelKey}]
    /\ UNCHANGED <<storeVars, procVars, cmdVars, healthVars, zonesVars, labelRet>>

CheckManagedLabel ==
    /\ labelOp' = "CheckManagedLabel"
    /\ labelRet' = IF unstructuredObj.nil THEN FALSE
                   ELSE LabelValue(unstructuredObj, ManagedByKubeFedLabelKey) = "false"
    /\ UNCHANGED <<storeVars, procVars, cmdVars, healthVars, zonesVars, unstructuredObj>>

NextLabels == HasManagedLabel \/ AddManagedLabel \/ RemoveManagedLabel \/ CheckManagedLabel

SpecLabels == InitLabels /\ [][NextLabels]_vars

\* ------------------------------------------------------------ vocabulary
Done(p) == pc[p] = "done"

\* The invocation got past client construction.
PastClients(p) == pc[p] \notin {"idle", "Run", "UnjoinCluster"} /\ abortAt[p] = "none"

\* The invocation is past the gate of UnjoinCluster.
PastGate(p) ==
    /\ PastClients(p)
    /\ pc[p] \in {"deleteKubefedClusterAndSecret", "deleteSecret", "deleteKubefedCluster",
                  "return", "done"}

\* The invocation is past deleteRBACResources.
PastRBAC(p) ==
    /\ PastClients(p)
    /\ clusterClientset[p]
    /\ pc[p] \notin {"teardown", "deleteClusterRoleAndBinding", "deleteServiceAccount"}

\* The invocation is past deleteFedNSFromUnjoinCluster.
PastNamespace(p) == PastRBAC(p) /\ nsErr[p] # "none"

Issued(p, via, verb, obj) ==
    \E k \in 1..Len(calls[p]) :
        /\ calls[p][k][1] = via /\ calls[p][k][2] = verb
        /\ calls[p][k][3] = obj[1] /\ calls[p][k][4] = obj[2]

IssuedWith(p, via, verb, obj, res) ==
    \E k \in 1..Len(calls[p]) : calls[p][k] = CallRec(via, verb, obj, res)

MemberCallIssued(p) == \E k \in 1..Len(calls[p]) : calls[p][k][1] = "clusterClientset"

\* A delete of the registration record or of its secret was issued.
DeregDeleteIssued(p) ==
    \/ Issued(p, "hostClientset", "Delete", SecretObj)
    \/ Issued(p, "genericclient", "Delete", KubefedClusterObj)

\* Both member-side teardown steps ran and returned success.
TeardownSucceeded(p) == clusterClientset[p] /\ rbacRet[p] /\ nsErr[p] = "nil"

\* An invocation that is a plain unjoin of a reachable member in which no
\* API call returned an error other than NotFound.
PlainFaultFree(p) ==
    /\ Done(p) /\ abortAt[p] = "none"
    /\ ~forceDeletion[p] /\ ~dryRun[p]
    /\ clusterClientset[p] /\ ~down[p]
    /\ ~HasErr(calls[p])

RegistrationGone == KubefedClusterObj \notin objects["host"] /\ SecretObj \notin objects["host"]

MemberSideGone ==
    /\ RBACObjs \cap objects[UnjoiningCluster] = {}
    /\ ~unjoinIsHost => NamespaceObj \notin objects["member"]

\* ----------------------------------------------------------------- C1
\* C1: past client construction, deleteKubefedClusterAndSecret is entered if
\* and only if both member-side teardown steps succeeded or forceDeletion is
\* set; a delete of the registration record or of the secret is only ever
\* issued from inside that step, so without force and with a failed (or
\* absent) member-side teardown no such delete is issued.
C1_DeregisterIffTeardownOrForce ==
    \A p \in Procs :
        PastClients(p) =>
            /\ deregCalled[p] => (TeardownSucceeded(p) \/ forceDeletion[p])
            /\ PastGate(p) => (deregCalled[p] <=> (TeardownSucceeded(p) \/ forceDeletion[p]))
            /\ DeregDeleteIssued(p) => deregCalled[p]
            /\ (~forceDeletion[p] /\ PastGate(p) /\ ~TeardownSucceeded(p))
                    => ~DeregDeleteIssued(p)

\* A non-forced unjoin whose RBAC teardown failed has returned without
\* entering the deregistration step.
C1_Witness ==
    \E p \in Procs :
        /\ Done(p) /\ PastClients(p)
        /\ ~forceDeletion[p] /\ ~dryRun[p] /\ clusterClientset[p]
        /\ ~rbacRet[p] /\ ~deregCalled[p]
        /\ KubefedClusterObj \in objects["host"]

\* ----------------------------------------------------------------- C2
\* C2: when the member configuration or clientset cannot be built: without
\* force the invocation returns the error having issued no API call at all
\* (registration record and secret untouched); with force (dryRun false, host
\* clients built) it returns nil, issues no call through the member client,
\* enters the deregistration step and asks for the registration record, and
\* deletes record and secret when they were there and no host call failed.
C2_ForceDegradation ==
    \A p \in Procs :
        (Done(p) /\ memberFail[p]) =>
            IF forceDeletion[p]
            THEN /\ abortAt[p] \notin {"ClusterConfig", "ClusterClientset"}
                 /\ (abortAt[p] = "none" /\ ~dryRun[p]) =>
                    /\ err[p] = "nil"
                    /\ ~clusterClientset[p] /\ ~MemberCallIssued(p)
                    /\ deregCalled[p]
                    /\ Issued(p, "genericclient", "Get", KubefedClusterObj)
                    /\ IssuedWith(p, "genericclient", "Get", KubefedClusterObj, "OK")
                          => /\ Issued(p, "hostClientset", "Delete", SecretObj)
                             /\ Issued(p, "genericclient", "Delete", KubefedClusterObj)
                    /\ (startFull[p] /\ ~HasErr(calls[p])) => RegistrationGone
            ELSE /\ err[p] = "err"
                 /\ abortAt[p] \in {"ClusterConfig", "ClusterClientset"}
                 /\ calls[p] = <<>>

\* A forced unjoin of an unreachable member has removed record and secret.
C2_Witness ==
    \E p \in Procs :
        /\ Done(p) /\ memberFail[p] /\ forceDeletion[p] /\ ~dryRun[p]
        /\ err[p] = "nil" /\ startFull[p] /\ RegistrationGone
        /\ RBACObjs \subseteq objects[UnjoiningCluster]

\* ----------------------------------------------------------------- C3
\* C3: a plain fault-free unjoin that follows a plain fault-free unjoin begun
\* with every object present returns nil like the first, every delete it
\* issues observes NotFound, and its aggregate teardown outcome is success.
C3_SecondUnjoinSucceeds ==
    \A p \in SeqProcs :
        (/\ PlainFaultFree(p)
         /\ prev.ran /\ prev.clean /\ prev.full /\ ~prev.force /\ ~prev.dry)
        => /\ prev.ok /\ err[p] = "nil"
           /\ \A k \in 1..Len(calls[p]) :
                  calls[p][k][2] = "Delete" => calls[p][k][5] = "NotFound"
           /\ rbacRet[p] /\ nsErr[p] = "nil" /\ deletionSucceeded[p]

\* ----------------------------------------------------------------- C4
\* C4: after a non-forced unjoin that removed member-side objects but left
\* the registration record, a plain fault-free unjoin ends with the member
\* side, the registration record and the secret all deleted.
C4_RetryConverges ==
    \A p \in SeqProcs :
        (/\ PlainFaultFree(p)
         /\ prev.ran /\ ~prev.force /\ ~prev.dry /\ prev.removed /\ prev.retained)
        => (MemberSideGone /\ RegistrationGone)

\* ----------------------------------------------------------------- C5
\* C5: when the namespace fetched from the unjoining cluster is the very
\* object fetched from the host, the namespace step issues no namespace
\* delete and reports success; the host's namespace is never deleted.
C5_PrimaryClusterGuard ==
    /\ NamespaceObj \in objects["host"]
    /\ \A p \in Procs :
        (/\ PastClients(p)
         /\ nsObj[p][2] # 0 /\ nsObj[p][1] = nsObj[p][2]
         /\ pc[p] # "deleteNamespace")
        => /\ ~Issued(p, "clusterClientset", "Delete", NamespaceObj)
           /\ nsErr[p] = "nil"

\* The host itself was unjoined for real: its RBAC objects are gone, the
\* namespace step compared the host's namespace with itself.
C5_Witness ==
    \E p \in Procs :
        /\ Done(p) /\ unjoinIsHost /\ ~dryRun[p]
        /\ nsObj[p] = <<NamespaceUID("host"), NamespaceUID("host")>>
        /\ RBACObjs \cap objects["host"] = {}
        /\ RegistrationGone

\* ----------------------------------------------------------------- C6
\* C6: no step of a dryRun invocation changes any object on either cluster,
\* nor issues any API call.
C6_DryRunPure ==
    [][\A p \in Procs :
          (dryRun[p] /\ pc[p] \notin {"idle", "done"} /\ pc'[p] # pc[p])
              => (objects' = objects /\ calls'[p] = <<>>)]_vars

\* A forced dryRun went through every step with everything still in place.
C6_Witness ==
    \E p \in Procs :
        /\ Done(p) /\ dryRun[p] /\ forceDeletion[p] /\ clusterClientset[p]
        /\ deregCalled[p] /\ err[p] = "nil"
        /\ JoinObjsPresent

\* ----------------------------------------------------------------- C7
\* C7: a non-dryRun invocation with a member client that is past
\* deleteRBACResources has issued a delete for each of the seven RBAC
\* objects, whatever the earlier deletes returned.
C7_ExhaustiveRBACCleanup ==
    \A p \in Procs :
        (PastRBAC(p) /\ ~dryRun[p]) =>
            \A o \in RBACObjs : Issued(p, "clusterClientset", "Delete", o)

\* A cluster role deletion failed with an error other than NotFound and the
\* service account was deleted all the same.
C7_Witness ==
    \E p \in Procs :
        /\ PastRBAC(p) /\ ~dryRun[p] /\ ~down[p]
        /\ IssuedWith(p, "clusterClientset", "Delete", <<"ClusterRole", RoleName>>, "Err")
        /\ IssuedWith(p, "clusterClientset", "Delete", ServiceAccountObj, "OK")

\* ----------------------------------------------------------------- C8
\* C8: if every delete of deleteRBACResources returned success or NotFound,
\* deleteRBACResources returns true.
C8_NotFoundIsSuccessInRBAC ==
    \A p \in Procs :
        (/\ PastRBAC(p) /\ ~dryRun[p]
         /\ \A k \in 1..Len(calls[p]) :
                (calls[p][k][2] = "Delete" /\ <<calls[p][k][3], calls[p][k][4]>> \in RBACObjs)
                    => calls[p][k][5] \in {"OK", "NotFound"})
        => rbacRet[p]

\* ----------------------------------------------------------------- C9
\* C9: when the namespace is found absent on the unjoining cluster, by the
\* Get or by the Delete, the namespace step returns nil and leaves the
\* aggregate outcome as deleteRBACResources returned it.
C9_AbsentNamespaceIsSuccess ==
    \A p \in Procs :
        (/\ PastNamespace(p) /\ ~dryRun[p]
         /\ \/ IssuedWith(p, "clusterClientset", "Get", NamespaceObj, "NotFound")
            \/ IssuedWith(p, "clusterClientset", "Delete", NamespaceObj, "NotFound"))
        => (nsErr[p] = "nil" /\ deletionSucceeded[p] = rbacRet[p])

\* ---------------------------------------------------------------- C10
\* C10: with a member client whose every call fails (server unreachable):
\* without force the invocation returns an error and the registration record
\* stays; with force it returns nil.
C10_ConnectivityFailureFatal ==
    \A p \in Procs :
        (Done(p) /\ PastClients(p) /\ clusterClientset[p] /\ down[p] /\ ~dryRun[p])
        => IF forceDeletion[p]
           THEN err[p] = "nil"
           ELSE err[p] = "err" /\ ~DeregDeleteIssued(p)

\* ---------------------------------------------------------------- C11
DeleteIssued(p) == \E k \in 1..Len(calls[p]) : calls[p][k][2] = "Delete"

\* C11: an invocation of Run or UnjoinCluster that returns an error has
\* issued no delete (indeed no API call) on either cluster; an invocation
\* that has issued a delete has not returned an error.
C11_ErrorsPrecedeMutation ==
    \A p \in Procs :
        /\ err[p] = "err" => (~DeleteIssued(p) /\ calls[p] = <<>>)
        /\ (Done(p) /\ DeleteIssued(p)) => err[p] = "nil"

\* The last fallible construction step (the generic client) failed: the
\* error is returned with nothing deleted.
C11_Witness ==
    \E p \in Procs :
        /\ Done(p) /\ err[p] = "err" /\ abortAt[p] = "GenericClient"
        /\ JoinObjsPresent

\* ---------------------------------------------------------------- C12
\* C12: a non-dryRun invocation that entered deleteKubefedClusterAndSecret
\* returns nil whatever its host calls returned; when the Get of the
\* registration record did not succeed no delete was issued for record or
\* secret; when it succeeded both the secret delete and the record delete
\* were issued, also when the secret delete failed.
C12_DeregistrationBestEffort ==
    \A p \in Procs :
        (Done(p) /\ deregCalled[p] /\ ~dryRun[p]) =>
            /\ err[p] = "nil"
            /\ Issued(p, "genericclient", "Get", KubefedClusterObj)
            /\ ~IssuedWith(p, "genericclient", "Get", KubefedClusterObj, "OK")
                  => ~DeregDeleteIssued(p)
            /\ IssuedWith(p, "genericclient", "Get", KubefedClusterObj, "OK")
                  => /\ Issued(p, "hostClientset", "Delete", SecretObj)
                     /\ Issued(p, "genericclient", "Delete", KubefedClusterObj)

\* The secret delete failed, the record was deleted all the same and nil
\* was returned.
C12_Witness ==
    \E p \in Procs :
        /\ Done(p) /\ deregCalled[p] /\ ~dryRun[p] /\ err[p] = "nil"
        /\ IssuedWith(p, "hostClientset", "Delete", SecretObj, "Err")
        /\ IssuedWith(p, "genericclient", "Delete", KubefedClusterObj, "OK")

\* ---------------------------------------------------------------- C13
\* C13 as stated: an invocation that began with registration record and
\* secret present ends, whatever the API failures, with both present or both
\* deleted.
C13_SecretAndRecordTogether ==
    \A p \in SeqProcs :
        (Done(p) /\ startReg[p]) =>
            (KubefedClusterObj \in objects["host"] <=> SecretObj \in objects["host"])

\* C13 amended: the same, for invocations in which neither the secret delete
\* nor the record delete returned an error other than NotFound.
C13_TogetherUnlessDeleteFails ==
    \A p \in SeqProcs :
        (/\ Done(p) /\ startReg[p]
         /\ ~IssuedWith(p, "hostClientset", "Delete", SecretObj, "Err")
         /\ ~IssuedWith(p, "genericclient", "Delete", KubefedClusterObj, "Err"))
        => (KubefedClusterObj \in objects["host"] <=> SecretObj \in objects["host"])

\* Record and secret were there, both deletes went through, both are gone.
C13_Witness ==
    \E p \in SeqProcs :
        /\ Done(p) /\ startReg[p]
        /\ IssuedWith(p, "hostClientset", "Delete", SecretObj, "OK")
        /\ IssuedWith(p, "genericclient", "Delete", KubefedClusterObj, "OK")
        /\ RegistrationGone

\* ---------------------------------------------------------------- C14
\* C14 as stated: under dryRun the namespace step still fetches the
\* namespace from the host and from the unjoining cluster, so that a lookup
\* that fails (unreachable member) classifies the step as failed.
C14_DryRunSameDecisionTree ==
    \A p \in Procs :
        (PastNamespace(p) /\ dryRun[p]) =>
            /\ Issued(p, "hostClientset", "Get", NamespaceObj)
            /\ IssuedWith(p, "hostClientset", "Get", NamespaceObj, "OK")
                  => Issued(p, "clusterClientset", "Get", NamespaceObj)
            /\ down[p] => nsErr[p] = "err"

\* C14 amended: under dryRun no step issues a server request; with a member
\* client the RBAC step and the namespace step both report success without
\* any lookup (so the gate opens and the deregistration step is entered),
\* without one the gate is decided by forceDeletion alone.
C14_DryRunSkipsLookups ==
    \A p \in Procs :
        (PastGate(p) /\ dryRun[p]) =>
            /\ calls[p] = <<>>
            /\ clusterClientset[p] =>
                  (rbacRet[p] /\ nsErr[p] = "nil" /\ deletionSucceeded[p] /\ deregCalled[p])
            /\ ~clusterClientset[p] => (deregCalled[p] <=> forceDeletion[p])

\* A non-forced dryRun against an unreachable member went through the gate
\* with both steps reported as succeeded.
C14_Witness ==
    \E p \in Procs :
        /\ Done(p) /\ dryRun[p] /\ ~forceDeletion[p] /\ clusterClientset[p] /\ down[p]
        /\ nsErr[p] = "nil" /\ deregCalled[p]

\* ---------------------------------------------------------------- C18
\* C18: a plain fault-free unjoin of a member that is not the host, begun
\* with every object of the join present, ends with the seven RBAC objects
\* and the member's namespace deleted, the registration record and its
\* secret deleted from the host, and nil returned.
C18_HappyPath ==
    \A p \in SeqProcs :
        (PlainFaultFree(p) /\ startFull[p] /\ ~unjoinIsHost) =>
            /\ err[p] = "nil"
            /\ MemberSideGone /\ NamespaceObj \notin objects["member"]
            /\ RegistrationGone
            /\ \A k \in 1..Len(calls[p]) : calls[p][k][5] = "OK"

C18_Witness ==
    \E p \in SeqProcs :
        /\ PlainFaultFree(p) /\ startFull[p] /\ ~unjoinIsHost
        /\ Len(calls[p]) = 13 /\ RegistrationGone

\* ---------------------------------------------------------------- C19
NamespaceLookupFailed(p) ==
    \/ \E r \in {"Err", "NotFound"} : IssuedWith(p, "hostClientset", "Get", NamespaceObj, r)
    \/ IssuedWith(p, "clusterClientset", "Get", NamespaceObj, "Err")

\* C19: in a non-dryRun invocation, when the host lookup of the namespace
\* fails, or the member lookup or the member namespace delete fails with an
\* error other than NotFound, the namespace step returns an error, the
\* aggregate outcome is failure whatever deleteRBACResources returned, a
\* failed lookup is followed by no namespace delete, and without force the
\* deregistration step is not entered and deletes neither record nor secret.
C19_NamespaceFailsClosed ==
    \A p \in Procs :
        (/\ PastNamespace(p) /\ ~dryRun[p]
         /\ \/ NamespaceLookupFailed(p)
            \/ IssuedWith(p, "clusterClientset", "Delete", NamespaceObj, "Err"))
        => /\ nsErr[p] = "err" /\ ~deletionSucceeded[p]
           /\ NamespaceLookupFailed(p) => ~Issued(p, "clusterClientset", "Delete", NamespaceObj)
           /\ ~forceDeletion[p] => (~deregCalled[p] /\ ~DeregDeleteIssued(p))

\* Every RBAC deletion succeeded, the host lookup of the namespace failed,
\* and the non-forced unjoin returned with the registration in place.
C19_Witness ==
    \E p \in Procs :
        /\ Done(p) /\ ~dryRun[p] /\ ~forceDeletion[p] /\ rbacRet[p]
        /\ IssuedWith(p, "hostClientset", "Get", NamespaceObj, "Err")
        /\ ~deletionSucceeded[p]
        /\ KubefedClusterObj \in objects["host"] /\ SecretObj \in objects["host"]

\* ---------------------------------------------------------------- C20
\* The stage of UnjoinCluster a call belongs to.
Stage(c) ==
    IF c[3] \in {"ClusterRoleBinding", "ClusterRole", "RoleBinding", "Role"} THEN 1
    ELSE IF c[3] = "ServiceAccount" THEN 2
    ELSE IF c[3] = "Namespace" THEN 3
    ELSE IF c[3] = "KubefedCluster" /\ c[2] = "Get" THEN 4
    ELSE IF c[3] = "Secret" THEN 5
    ELSE 6

\* C20: the calls of one invocation come in stage order (role and binding
\* deletes, service account delete, namespace lookups and delete, then on
\* the host the record Get, the secret delete, the record delete), so every
\* delete through the member client precedes every delete of record or
\* secret; the namespace step is attempted also when the RBAC teardown
\* failed.
C20_StepOrder ==
    \A p \in Procs :
        /\ \A i \in 1..Len(calls[p]), j \in 1..Len(calls[p]) :
              i < j =>
                 /\ Stage(calls[p][i]) <= Stage(calls[p][j])
                 /\ (calls[p][j][1] = "clusterClientset" /\ calls[p][j][2] = "Delete")
                       => calls[p][i][3] \notin {"Secret", "KubefedCluster"}
                 /\ (\/ Stage(calls[p][i]) \notin {1, 3}
                     \/ (Stage(calls[p][i]) = 3 /\ calls[p][i][2] = "Delete"))
                       => Stage(calls[p][i]) < Stage(calls[p][j])
        /\ (PastRBAC(p) /\ (pc[p] = "gate" \/ PastGate(p)) /\ ~dryRun[p] /\ ~rbacRet[p])
              => Issued(p, "hostClientset", "Get", NamespaceObj)

\* A forced unjoin whose RBAC teardown failed went on to the namespace and
\* then to the host.
C20_Witness ==
    \E p \in Procs :
        /\ Done(p) /\ forceDeletion[p] /\ ~rbacRet[p] /\ ~down[p]
        /\ Issued(p, "clusterClientset", "Delete", NamespaceObj)
        /\ Issued(p, "hostClientset", "Delete", SecretObj)
        /\ Issued(p, "genericclient", "Delete", KubefedClusterObj)


\* ------------------------------------------------------------------ C15
HasSlashOrColon(s) == \E i \in 1..Len(s) : s[i] = "/" \/ s[i] = ":"

\* The three rejected inputs: (a) no positional name, (b) an override
\* containing "/" or ":", (c) no override and a host context containing them.
RejectedInput ==
    \/ args = <<>>
    \/ (opts.HostClusterName # <<>> /\ HasSlashOrColon(opts.HostClusterName))
    \/ (opts.HostClusterName = <<>> /\ HasSlashOrColon(opts.HostClusterContext))

\* C15: Complete returns an error exactly for the three rejected inputs; on
\* an error the command stops without invoking Run, and nothing has been
\* sent to a server by the time Complete has returned.
C15_ValidationFatal ==
    cmdPc \in {"completed", "fatal", "Run"} =>
        /\ (completeErr # "nil") <=> RejectedInput
        /\ cmdPc = "Run" => completeErr = "nil"
        /\ cmdPc = "fatal" => completeErr # "nil"
        /\ \A p \in Procs : calls[p] = <<>> /\ pc[p] = "idle"

\* An override is given and is clean while the host context holds a "/":
\* Complete returned nil and Run was invoked.
C15_Witness ==
    /\ cmdPc = "Run"
    /\ opts.HostClusterName = <<"a">>
    /\ opts.HostClusterContext = <<"a", "/">>

\* ------------------------------------------------------------------ C16
OkBodies == {<<"o", "k">>, <<"O", "K">>, <<"O", "k">>, <<"o", "K">>}

HasType(t) ==
    \E i \in 1..Len(clusterStatus.Conditions) : clusterStatus.Conditions[i].Type = t

\* C16: a request error gives the single condition Offline=True; a body
\* equal to "ok" in any letter case gives the single condition Ready=True;
\* any other body gives Ready=False and Offline=False.  The list is never
\* empty and holds both types only for an unexpected body.
C16_HealthClassification ==
    clusterStatus.called =>
        /\ probe.err =>
             clusterStatus.Conditions = <<[Type |-> "Offline", Status |-> "True"]>>
        /\ (~probe.err /\ probe.body \in OkBodies) =>
             clusterStatus.Conditions = <<[Type |-> "Ready", Status |-> "True"]>>
        /\ (~probe.err /\ probe.body \notin OkBodies) =>
             clusterStatus.Conditions = <<[Type |-> "Ready", Status |-> "False"],
                                          [Type |-> "Offline", Status |-> "False"]>>
        /\ clusterStatus.Conditions # <<>>
        /\ (HasType("Ready") /\ HasType("Offline")) =>
             (~probe.err /\ probe.body \notin OkBodies)

\* The body "OK" was classified as ready.
C16_Witness ==
    /\ clusterStatus.called
    /\ ~probe.err
    /\ probe.body = <<"O", "K">>
    /\ Len(clusterStatus.Conditions) = 1

\* ------------------------------------------------------------------ C17
\* The value of label key on node n of the list, if it has that label.
HasLabel(n, key, v) == <<key, v>> \in nodeList.Items[n].Labels

\* C17: the zones are the distinct non-empty zone-label values of all the
\* nodes, the region is the region label of the first node (empty without
\* one or without nodes); a List error gives the error, no zones and an
\* empty region.
C17_ZoneAggregation ==
    zonesRet.called =>
        IF nodeList.err
        THEN zonesRet.err /\ zonesRet.zones = {} /\ zonesRet.region = <<>>
        ELSE /\ ~zonesRet.err
             /\ zonesRet.zones =
                  {z \in ZoneValues \ {<<>>} :
                     \E n \in 1..Len(nodeList.Items) : HasLabel(n, LabelZoneFailureDomain, z)}
             /\ \A r \in RegionValues :
                  zonesRet.region = r <=>
                     (Len(nodeList.Items) > 0 /\ HasLabel(1, LabelZoneRegion, r))
             /\ zonesRet.region \in RegionValues \cup {<<>>}

\* Zones a, a, b and regions r1, r2, r2 in listing order.
C17_Witness ==
    /\ zonesRet.called
    /\ ~nodeList.err
    /\ Len(nodeList.Items) = 3
    /\ HasLabel(1, LabelZoneFailureDomain, <<"a">>) /\ HasLabel(1, LabelZoneRegion, <<"r1">>)
    /\ HasLabel(2, LabelZoneFailureDomain, <<"a">>) /\ HasLabel(2, LabelZoneRegion, <<"r2">>)
    /\ HasLabel(3, LabelZoneFailureDomain, <<"b">>) /\ HasLabel(3, LabelZoneRegion, <<"r2">>)
    /\ zonesRet.zones = {<<"a">>, <<"b">>}
    /\ zonesRet.region = <<"r1">>


\* ------------------------------------------------------------------ C21
\* The results of the role and binding deletions the invocation has issued.
RoleDeleteResults(p) ==
    {calls[p][k][5] : k \in {n \in 1..Len(calls[p]) : Stage(calls[p][n]) = 1}}

\* The result of the service account deletion, once issued.
ServiceAccountDeleteResults(p) ==
    {calls[p][k][5] : k \in {n \in 1..Len(calls[p]) : Stage(calls[p][n]) = 2}}

\* C21: without dryRun, deleteClusterRoleAndBinding returns true exactly
\* when none of its six deletions returned an error other than NotFound, and
\* deleteRBACResources returns true exactly when that holds and the service
\* account deletion returned no error; a teardown classified as successful
\* has no failed deletion on the unjoining cluster.
C21_RBACAggregate ==
    \A p \in Procs :
        /\ (PastClients(p) /\ clusterClientset[p] /\ ~dryRun[p]
              /\ pc[p] \notin {"teardown", "deleteClusterRoleAndBinding"})
             => /\ Cardinality({n \in 1..Len(calls[p]) : Stage(calls[p][n]) = 1}) = 6
                /\ roleRet[p] <=> RoleDeleteResults(p) \subseteq {"OK", "NotFound"}
        /\ (PastRBAC(p) /\ ~dryRun[p])
             => rbacRet[p] <=> (/\ RoleDeleteResults(p) \subseteq {"OK", "NotFound"}
                                /\ ServiceAccountDeleteResults(p) = {"OK"})
        /\ (PastGate(p) /\ ~dryRun[p] /\ deletionSucceeded[p])
             => \A k \in 1..Len(calls[p]) :
                    (calls[p][k][1] = "clusterClientset" /\ calls[p][k][2] = "Delete")
                       => calls[p][k][5] # "Err"

\* A role was already gone (NotFound), the service account was deleted, and
\* deleteRBACResources returned true.
C21_Witness ==
    \E p \in Procs :
        /\ PastRBAC(p) /\ ~dryRun[p] /\ rbacRet[p]
        /\ "NotFound" \in RoleDeleteResults(p)


\* ------------------------------------------------------------------ C22
\* Both invocations have returned after a teardown against a reachable
\* unjoining cluster.
BothRanTeardown ==
    \A p \in Procs : Done(p) /\ abortAt[p] = "none" /\ clusterClientset[p] /\ ~down[p]

\* C22: when two non-forced unjoins of the same cluster run concurrently
\* without API faults, at least one of them classifies its teardown as
\* successful and removes record and secret, so that the cluster ends up
\* fully unjoined.
C22_ConcurrentUnjoinCompletes ==
    BothRanTeardown =>
        /\ \E p \in Procs : deletionSucceeded[p] /\ deregCalled[p]
        /\ RegistrationGone


\* ------------------------------------------------------------------ C23
IsSecretDelete(c) == c[2] = "Delete" /\ c[3] = "Secret"
IsRecordGetOK(c) == c[2] = "Get" /\ c[3] = "KubefedCluster" /\ c[5] = "OK"

\* C23: a secret delete is issued only by an invocation that has fetched
\* the registration record successfully; while the record is absent no step
\* issues a secret delete, so a secret left behind stays on the host.
C23_SecretNeedsRecord ==
    [][/\ \A p \in Procs : \A k \in 1..Len(calls'[p]) :
            IsSecretDelete(calls'[p][k])
               => \E i \in 1..(k - 1) : IsRecordGetOK(calls'[p][i])
       /\ KubefedClusterObj \notin objects["host"]
            => /\ \A p \in Procs :
                    (calls'[p] # calls[p] /\ calls'[p] # <<>>)
                       => ~IsSecretDelete(calls'[p][Len(calls'[p])])
               /\ SecretObj \in objects["host"] => SecretObj \in objects'["host"]]_vars

\* The record is gone and its secret is not; a forced invocation that began
\* in that state reached deleteKubefedClusterAndSecret, did not find the
\* record and returned with the secret still there.
C23_Witness ==
    \E p \in Procs :
        /\ Done(p) /\ forceDeletion[p] /\ ~dryRun[p] /\ deregCalled[p]
        /\ IssuedWith(p, "genericclient", "Get", KubefedClusterObj, "NotFound")
        /\ KubefedClusterObj \notin objects["host"]
        /\ SecretObj \in objects["host"]


\* ------------------------------------------------------------------ C24
\* UnjoinCluster was entered with clusterConfig == nil.
NilConfigCall(p) ==
    /\ pc[p] \notin {"idle", "Run"}
    /\ ~clusterConfig[p]
    /\ abortAt[p] \notin {"HostConfig", "ClusterConfig"}

\* C24: UnjoinCluster entered without a member configuration and without
\* force issues no deletion on either side and, its host clients built,
\* returns nil; an absent member client leads to an error only where the
\* member configuration cannot be loaded in Run or the member clientset
\* cannot be built in UnjoinCluster, and then only without force.
C24_NilConfigNoForce ==
    \A p \in Procs :
        /\ (NilConfigCall(p) /\ ~forceDeletion[p])
             => /\ ~DeleteIssued(p)
                /\ ~deregCalled[p]
                /\ ~MemberCallIssued(p)
                /\ (Done(p) /\ abortAt[p] \notin {"HostClientset", "GenericClient"})
                      => err[p] = "nil"
        /\ abortAt[p] \in {"ClusterConfig", "ClusterClientset"}
             => (~forceDeletion[p] /\ memberFail[p] /\ err[p] = "err")
        /\ (Done(p) /\ ~clusterClientset[p] /\ err[p] = "err")
             => \/ abortAt[p] \in {"HostConfig", "HostClientset", "GenericClient"}
                \/ (abortAt[p] \in {"ClusterConfig", "ClusterClientset"} /\ ~forceDeletion[p])

\* A direct call with a nil member configuration, no force, no dry run,
\* that returned nil with nothing issued and the registration in place.
C24_Witness ==
    \E p \in Procs :
        /\ Done(p) /\ NilConfigCall(p) /\ ~forceDeletion[p] /\ ~dryRun[p]
        /\ abortAt[p] = "none" /\ err[p] = "nil"
        /\ calls[p] = <<>>
        /\ startReg[p] /\ KubefedClusterObj \in objects["host"]


\* ------------------------------------------------------------------ C25
\* What an unjoin of the cluster may delete on cluster c: through the member
\* client the seven delegated-access objects and the namespace (never the
\* host's own namespace), through the host clients the record and its secret.
MayDelete(c) ==
    (IF c = UnjoiningCluster
     THEN RBACObjs \cup (IF c = "host" THEN {} ELSE {NamespaceObj})
     ELSE {})
    \cup (IF c = "host" THEN {KubefedClusterObj, SecretObj} ELSE {})

\* C25: no step creates or changes an object; what a step deletes on the
\* unjoining cluster is among the seven delegated-access objects and the
\* namespace, on the host the cluster's record and the secret it names.
\* Records and secrets of other clusters and the host's namespace stay.
C25_Frame ==
    [][\A c \in Clusters :
          /\ objects'[c] \subseteq objects[c]
          /\ (objects[c] \ objects'[c]) \subseteq MayDelete(c)
          /\ OtherHostObjs \cup {NamespaceObj} \subseteq objects'["host"]]_vars

\* An unjoin removed everything it may remove and nothing else.
C25_Witness ==
    \E p \in Procs :
        /\ Done(p) /\ ~dryRun[p]
        /\ MemberSideGone /\ RegistrationGone
        /\ OtherHostObjs \cup {NamespaceObj} \subseteq objects["host"]
        /\ ~unjoinIsHost => OtherMemberObjs \subseteq objects["member"]


\* ------------------------------------------------------------------ C26
Managed(o, v) == <<ManagedByKubeFedLabelKey, v>> \in o.Labels
OtherLabels(o) == {kv \in o.Labels : kv[1] # ManagedByKubeFedLabelKey}

\* C26: AddManagedLabel leaves the managed label set to "true" and
\* RemoveManagedLabel leaves it not set to "true", so that HasManagedLabel
\* called next returns true, respectively false; a second Add or Remove
\* changes nothing; neither touches another label; Remove changes nothing
\* when the managed key is absent or has another value, so that a "false"
\* value survives it; HasManagedLabel and CheckManagedLabel called one after
\* the other on the same object are never both true.
C26_ManagedLabel ==
    [][/\ labelOp' = "AddManagedLabel" =>
            /\ Managed(unstructuredObj', "true")
            /\ OtherLabels(unstructuredObj') = OtherLabels(unstructuredObj)
            /\ labelOp = "AddManagedLabel" => unstructuredObj' = unstructuredObj
       /\ labelOp' = "RemoveManagedLabel" =>
            /\ ~Managed(unstructuredObj', "true")
            /\ OtherLabels(unstructuredObj') = OtherLabels(unstructuredObj)
            /\ labelOp = "RemoveManagedLabel" => unstructuredObj' = unstructuredObj
            /\ ~Managed(unstructuredObj, "true") => unstructuredObj' = unstructuredObj
            /\ Managed(unstructuredObj, "false") => Managed(unstructuredObj', "false")
       /\ labelOp' = "HasManagedLabel" =>
            /\ unstructuredObj' = unstructuredObj
            /\ labelRet' <=> Managed(unstructuredObj, "true")
            /\ labelOp = "AddManagedLabel" => labelRet'
            /\ labelOp = "RemoveManagedLabel" => ~labelRet'
            /\ labelOp = "CheckManagedLabel" => ~(labelRet /\ labelRet')
       /\ labelOp' = "CheckManagedLabel" =>
            /\ unstructuredObj' = unstructuredObj
            /\ labelRet' <=> Managed(unstructuredObj, "false")
            /\ labelOp = "HasManagedLabel" => ~(labelRet /\ labelRet')]_vars

\* RemoveManagedLabel has been called on an object labelled managed="false"
\* that has another label, and both labels are still there.
C26_Witness ==
    /\ labelOp = "RemoveManagedLabel"
    /\ Managed(unstructuredObj, "false")
    /\ OtherLabels(unstructuredObj) # {}

====
